---------------------------- MODULE Spec2Model ----------------------------
(***************************************************************************)
(* A model of src/src/components/QRGenerator.tsx: the QRGenerator React    *)
(* component.  The state is the component's useState cells, the encodes    *)
(* (QRCode.toDataURL promises) still pending, and what the component has   *)
(* handed to its collaborators (toasts, file saves, clipboard writes,      *)
(* shares, rejections nobody handled).                                     *)
(*                                                                         *)
(* One action is one handler together with the render and the effects it   *)
(* triggers: React runs the effects of a discrete event's update           *)
(* synchronously after the commit, and an effect's own setState is         *)
(* rendered before control returns to the event loop, so no other handler  *)
(* or promise callback runs between a setter and the effects it causes.    *)
(* Strings are TLA+ strings; TLC evaluates Len, \o and SubSeq on them.     *)
(***************************************************************************)
EXTENDS Naturals, Sequences, FiniteSets, Bags, TLC

VARIABLES
    mounted,          \* FALSE after the first render, TRUE once the mount effects ran
    activeTab,        \* line 34
    trackScans,       \* line 35
    removeWatermark,  \* line 36
    urlData,          \* line 41
    textData,         \* line 42
    emailData,        \* line 43
    phoneData,        \* line 44
    smsData,          \* line 45
    contactData,      \* line 46
    wifiData,         \* line 55
    qrData,           \* line 32: the Payload
    qrCode,           \* line 33: the RenderedImage (a data URI, "" when none)
    inflight,         \* the pending QRCode.toDataURL promises, in start order
    inflightKind,     \* the activeTab of the render that started each of them
    qrKind,           \* the activeTab of the render that started the encode shown
    unhandled,        \* rejections that reached no handler (unhandledrejection)
    toasts,           \* bag of the titles passed to toast()
    saved,            \* bag of <<download, href>> of the links clicked
    clipboard,        \* bag of the blobs given to navigator.clipboard.write
    shared,           \* bag of <<title, file name, blob>> given to navigator.share
    canShare,         \* whether the platform defines navigator.share
    settled,          \* how the encode that settled last ended ("none" before any)
    nEvents,          \* user events (input, tab, switch, button) handled so far
    nClicks           \* those of them that were Download, Copy or Share clicks

form == <<activeTab, urlData, textData, emailData, phoneData, smsData,
          contactData, wifiData>>
toggles == <<trackScans, removeWatermark>>
derived == <<qrData, qrCode>>
kinds == <<inflightKind, qrKind>>
outputs == <<toasts, saved, clipboard, shared>>
vars == <<mounted, form, toggles, derived, inflight, kinds, unhandled, outputs,
          canShare, settled, nEvents, nClicks>>

(***************************************************************************)
(* Bounds of the model.                                                    *)
(***************************************************************************)
MaxEvents == 2

\* The values an input's onChange may deliver (e.target.value).
Strings == {"", "a@b.com", "Hi there&you"}

QRType == {"url", "text", "email", "phone", "sms", "contact", "wifi"}

(***************************************************************************)
(* encodeURIComponent (ECMAScript): the unreserved characters are kept,    *)
(* every other character becomes %HH of its UTF-8 bytes.                   *)
(***************************************************************************)
Unreserved ==
    {"a","b","c","d","e","f","g","h","i","j","k","l","m","n","o","p","q","r",
     "s","t","u","v","w","x","y","z",
     "A","B","C","D","E","F","G","H","I","J","K","L","M","N","O","P","Q","R",
     "S","T","U","V","W","X","Y","Z",
     "0","1","2","3","4","5","6","7","8","9",
     "-","_",".","!","~","*","'","(",")"}

PercentCode(c) ==
    CASE c = " "  -> "%20"
      [] c = "#"  -> "%23"
      [] c = "$"  -> "%24"
      [] c = "%"  -> "%25"
      [] c = "&"  -> "%26"
      [] c = "+"  -> "%2B"
      [] c = ","  -> "%2C"
      [] c = "/"  -> "%2F"
      [] c = ":"  -> "%3A"
      [] c = ";"  -> "%3B"
      [] c = "="  -> "%3D"
      [] c = "?"  -> "%3F"
      [] c = "@"  -> "%40"
      [] c = "\n" -> "%0A"

RECURSIVE encodeURIComponent(_)
encodeURIComponent(s) ==
    IF s = "" THEN ""
    ELSE LET c == SubSeq(s, 1, 1)
         IN  (IF c \in Unreserved THEN c ELSE PercentCode(c))
                 \o encodeURIComponent(SubSeq(s, 2, Len(s)))

\* String(boolean), as a template literal interpolates wifiData.hidden.
BooleanToString(b) == IF b THEN "true" ELSE "false"

\* x || y on strings: the empty string is falsy.
OrElse(x, y) == IF x # "" THEN x ELSE y

(***************************************************************************)
(* The payload formatter: the switch of the first effect, one operator per *)
(* case.                                                                   *)
(***************************************************************************)
\* A slip: the URL percent-encoded before it is used.
formatUrlEncoded(url) == OrElse(encodeURIComponent(url), "https://example.com")

formatUrl(url) == OrElse(url, "https://example.com")

\* A slip: the text used as it is, without the placeholder.
formatTextRaw(text) == text

formatText(text) == OrElse(text, "Sample text")

\* A slip: the address percent-encoded like the subject and the body.
formatEmailEncodesAddress(e) ==
    "mailto:" \o encodeURIComponent(e.email) \o "?subject="
        \o encodeURIComponent(e.subject) \o "&body=" \o encodeURIComponent(e.body)

formatEmail(e) ==
    "mailto:" \o e.email \o "?subject=" \o encodeURIComponent(e.subject)
        \o "&body=" \o encodeURIComponent(e.body)

formatPhone(phone) == "tel:" \o phone

formatSms(s) == "sms:" \o s.phone \o "?body=" \o encodeURIComponent(s.message)

formatContact(c) ==
    "BEGIN:VCARD\nVERSION:3.0\nFN:" \o c.firstName \o " " \o c.lastName
        \o "\nORG:" \o c.organization \o "\nTITLE:" \o c.title
        \o "\nEMAIL:" \o c.email \o "\nTEL:" \o c.phone
        \o "\nTEL;TYPE=CELL:" \o c.mobile \o "\nEND:VCARD"

formatWifi(w) ==
    "WIFI:T:" \o w.security \o ";S:" \o w.ssid \o ";P:" \o w.password
        \o ";H:" \o BooleanToString(w.hidden) \o ";"

\* A slip: case "url" without its break, falling through into case "text".
formatMissingBreak(tab, url, text, email, phone, sms, contact, wifi) ==
    CASE tab = "url"     -> formatText(text)
      [] tab = "text"    -> formatText(text)
      [] tab = "email"   -> formatEmail(email)
      [] tab = "phone"   -> formatPhone(phone)
      [] tab = "sms"     -> formatSms(sms)
      [] tab = "contact" -> formatContact(contact)
      [] tab = "wifi"    -> formatWifi(wifi)
      [] OTHER           -> ""

\* The value the first effect passes to setQrData.
format(tab, url, text, email, phone, sms, contact, wifi) ==
    CASE tab = "url"     -> formatUrl(url)
      [] tab = "text"    -> formatText(text)
      [] tab = "email"   -> formatEmail(email)
      [] tab = "phone"   -> formatPhone(phone)
      [] tab = "sms"     -> formatSms(sms)
      [] tab = "contact" -> formatContact(contact)
      [] tab = "wifi"    -> formatWifi(wifi)
      [] OTHER           -> ""

(***************************************************************************)
(* The encoder.  QRCode.toDataURL is an external library: its result is a  *)
(* PNG data URI that is a function of the text (the options are fixed),    *)
(* different texts giving different symbols.  Its promise may fulfil or    *)
(* reject, and nothing in the component orders two pending promises.       *)
(***************************************************************************)
toDataURL(text) == "data:image/png;" \o text

\* A slip: the second effect without its dependency list, run after every render.
encodeEffectEveryRender(old, new, pending) ==
    IF new # "" THEN Append(pending, new) ELSE pending

\* The second effect: it runs when qrData changed, and encodes a non-empty one.
encodeEffect(old, new, pending) ==
    IF new # old /\ new # "" THEN Append(pending, new) ELSE pending

\* A sequence without its i-th element.
Remove(s, i) == SubSeq(s, 1, i - 1) \o SubSeq(s, i + 1, Len(s))

(***************************************************************************)
(* The state after the first render: the useState initial values.          *)
(***************************************************************************)
Init ==
    /\ mounted = FALSE
    /\ qrData = ""
    /\ qrCode = ""
    /\ activeTab = "url"
    /\ trackScans = FALSE
    /\ removeWatermark = FALSE
    /\ urlData = ""
    /\ textData = ""
    /\ emailData = [email |-> "", subject |-> "", body |-> ""]
    /\ phoneData = ""
    /\ smsData = [phone |-> "", message |-> ""]
    /\ contactData = [firstName |-> "", lastName |-> "", organization |-> "",
                      title |-> "", email |-> "", phone |-> "", mobile |-> ""]
    /\ wifiData = [ssid |-> "", password |-> "", security |-> "WPA",
                   hidden |-> FALSE]
    /\ inflight = <<>>
    /\ inflightKind = <<>>
    /\ qrKind = ""
    /\ unhandled = 0
    /\ toasts = EmptyBag
    /\ saved = EmptyBag
    /\ clipboard = EmptyBag
    /\ shared = EmptyBag
    /\ canShare \in BOOLEAN
    /\ settled = "none"
    /\ nEvents = 0
    /\ nClicks = 0

(***************************************************************************)
(* The two effects, run after a render in which the form changed: the      *)
(* first sets qrData from the new form, the second starts an encode when   *)
(* that changed qrData.                                                    *)
(***************************************************************************)
RunEffects ==
    /\ qrData' = format(activeTab', urlData', textData', emailData',
                        phoneData', smsData', contactData', wifiData')
    /\ inflight' = encodeEffect(qrData, qrData', inflight)
    /\ inflightKind' = IF Len(inflight') > Len(inflight)
                       THEN Append(inflightKind, activeTab')
                       ELSE inflightKind

\* What an input, tab or toggle handler leaves alone.
EditFrame ==
    /\ nEvents < MaxEvents
    /\ nEvents' = nEvents + 1
    /\ UNCHANGED <<mounted, qrCode, qrKind, unhandled, outputs, canShare, settled,
                   nClicks>>

\* The effects of the first commit.
Mount ==
    /\ ~mounted
    /\ mounted' = TRUE
    /\ UNCHANGED <<form, toggles>>
    /\ RunEffects
    /\ UNCHANGED <<qrCode, qrKind, unhandled, outputs, canShare, settled, nEvents,
                   nClicks>>

\* A slip: a tab handler that also empties the URL record when the URL tab is
\* left.
setActiveTabClearsRecord(value) ==
    /\ mounted
    /\ activeTab' = value
    /\ urlData' = IF activeTab = "url" /\ value # "url" THEN "" ELSE urlData
    /\ UNCHANGED <<textData, emailData, phoneData, smsData, contactData,
                   wifiData, toggles>>
    /\ RunEffects
    /\ EditFrame

\* A slip: a tab handler that also blanks the image of the kind left behind.
setActiveTabBlanksImage(value) ==
    /\ mounted
    /\ nEvents < MaxEvents
    /\ activeTab' = value
    /\ UNCHANGED <<urlData, textData, emailData, phoneData, smsData,
                   contactData, wifiData, toggles>>
    /\ RunEffects
    /\ qrCode' = IF value # activeTab THEN "" ELSE qrCode
    /\ nEvents' = nEvents + 1
    /\ UNCHANGED <<mounted, qrKind, unhandled, outputs, canShare, settled, nClicks>>

\* Tabs onValueChange.
setActiveTab(value) ==
    /\ mounted
    /\ activeTab' = value
    /\ UNCHANGED <<urlData, textData, emailData, phoneData, smsData,
                   contactData, wifiData, toggles>>
    /\ RunEffects
    /\ EditFrame

(***************************************************************************)
(* The input handlers.  An input belongs to its kind's TabsContent, which  *)
(* is rendered only while that kind is the active tab.  Each object setter *)
(* spreads the record of the current render and replaces one field.        *)
(***************************************************************************)
\* Whether the inputs of kind `tab` are on screen.
Shown(tab) == mounted /\ activeTab = tab

\* What every input handler shares: the effects and the frame.
InputDone ==
    /\ UNCHANGED <<activeTab, toggles>>
    /\ RunEffects
    /\ EditFrame

setUrlData(v) ==
    /\ Shown("url")
    /\ urlData' = v
    /\ UNCHANGED <<textData, emailData, phoneData, smsData, contactData, wifiData>>
    /\ InputDone

setTextData(v) ==
    /\ Shown("text")
    /\ textData' = v
    /\ UNCHANGED <<urlData, emailData, phoneData, smsData, contactData, wifiData>>
    /\ InputDone

setEmailData(field, v) ==
    /\ Shown("email")
    /\ emailData' = [emailData EXCEPT ![field] = v]
    /\ UNCHANGED <<urlData, textData, phoneData, smsData, contactData, wifiData>>
    /\ InputDone

setPhoneData(v) ==
    /\ Shown("phone")
    /\ phoneData' = v
    /\ UNCHANGED <<urlData, textData, emailData, smsData, contactData, wifiData>>
    /\ InputDone

setSmsData(field, v) ==
    /\ Shown("sms")
    /\ smsData' = [smsData EXCEPT ![field] = v]
    /\ UNCHANGED <<urlData, textData, emailData, phoneData, contactData, wifiData>>
    /\ InputDone

setContactData(field, v) ==
    /\ Shown("contact")
    /\ contactData' = [contactData EXCEPT ![field] = v]
    /\ UNCHANGED <<urlData, textData, emailData, phoneData, smsData, wifiData>>
    /\ InputDone

setWifiData(field, v) ==
    /\ Shown("wifi")
    /\ wifiData' = [wifiData EXCEPT ![field] = v]
    /\ UNCHANGED <<urlData, textData, emailData, phoneData, smsData, contactData>>
    /\ InputDone

\* The fields that have an input, per record (wifiData.security has none).
EmailFields == {"email", "subject", "body"}
SmsFields == {"phone", "message"}
ContactFields == {"firstName", "lastName", "organization", "title", "email",
                  "phone", "mobile"}
WifiTextFields == {"ssid", "password"}

(***************************************************************************)
(* The two option switches: no effect lists them as a dependency.          *)
(***************************************************************************)
\* A slip: trackScans listed among the dependencies of the encode effect.
setTrackScansReencodes ==
    /\ mounted
    /\ trackScans' = ~trackScans
    /\ inflight' = Append(inflight, qrData)
    /\ inflightKind' = Append(inflightKind, activeTab)
    /\ UNCHANGED <<form, removeWatermark, qrData>>
    /\ EditFrame

setTrackScans ==
    /\ mounted
    /\ trackScans' = ~trackScans
    /\ UNCHANGED <<form, removeWatermark, qrData, inflight, inflightKind>>
    /\ EditFrame

setRemoveWatermark ==
    /\ mounted
    /\ removeWatermark' = ~removeWatermark
    /\ UNCHANGED <<form, trackScans, qrData, inflight, inflightKind>>
    /\ EditFrame

(***************************************************************************)
(* The settling of a pending encode: .then(setQrCode) has a fulfilment     *)
(* handler and no rejection handler.                                       *)
(***************************************************************************)
EncodeFrame ==
    UNCHANGED <<mounted, form, toggles, qrData, outputs, canShare, nEvents, nClicks>>

EncodeResolved(i) ==
    /\ i \in 1..Len(inflight)
    /\ qrCode' = toDataURL(inflight[i])
    /\ qrKind' = inflightKind[i]
    /\ inflight' = Remove(inflight, i)
    /\ inflightKind' = Remove(inflightKind, i)
    /\ settled' = "fulfilled"
    /\ UNCHANGED unhandled
    /\ EncodeFrame

\* A slip: a rejection handler that blanks the image.
EncodeRejectedBlanksImage(i) ==
    /\ i \in 1..Len(inflight)
    /\ inflight' = Remove(inflight, i)
    /\ inflightKind' = Remove(inflightKind, i)
    /\ settled' = "rejected"
    /\ qrCode' = ""
    /\ qrKind' = ""
    /\ UNCHANGED unhandled
    /\ EncodeFrame

EncodeRejected(i) ==
    /\ i \in 1..Len(inflight)
    /\ inflight' = Remove(inflight, i)
    /\ inflightKind' = Remove(inflightKind, i)
    /\ unhandled' = unhandled + 1
    /\ settled' = "rejected"
    /\ UNCHANGED <<qrCode, qrKind>>
    /\ EncodeFrame

(***************************************************************************)
(* The action handlers.  copyQR and shareQR await their collaborators; the *)
(* continuation reads only the qrCode and activeTab of the render that was *)
(* clicked and writes only to the collaborators, so each is one step whose *)
(* outcome the collaborators choose.                                       *)
(***************************************************************************)
Add(bag, x) == bag (+) SetToBag({x})

ClickFrame ==
    /\ mounted
    /\ nEvents < MaxEvents
    /\ nEvents' = nEvents + 1
    /\ nClicks' = nClicks + 1
    /\ UNCHANGED <<mounted, form, toggles, derived, inflight, kinds, unhandled,
                   canShare, settled>>

\* A slip: the file name without the kind.
fileNameFixed(tab) == "qr-code.png"

fileName(tab) == "qr-code-" \o tab \o ".png"

\* A slip: downloadQR taking the image off the display once it is saved.
downloadQRConsumesImage ==
    /\ mounted
    /\ nEvents < MaxEvents
    /\ nEvents' = nEvents + 1
    /\ nClicks' = nClicks + 1
    /\ IF qrCode # ""
       THEN /\ saved' = Add(saved, <<fileName(activeTab), qrCode>>)
            /\ toasts' = Add(toasts, "QR Code Downloaded")
            /\ UNCHANGED <<clipboard, shared>>
       ELSE UNCHANGED outputs
    /\ qrCode' = ""
    /\ UNCHANGED <<mounted, form, toggles, qrData, inflight, kinds, unhandled,
                   canShare, settled>>

\* A slip: downloadQR without its `if (qrCode)`.
downloadQRUnguarded ==
    /\ saved' = Add(saved, <<fileName(activeTab), qrCode>>)
    /\ toasts' = Add(toasts, "QR Code Downloaded")
    /\ UNCHANGED <<clipboard, shared>>
    /\ ClickFrame

downloadQR ==
    /\ IF qrCode # ""
       THEN /\ saved' = Add(saved, <<fileName(activeTab), qrCode>>)
            /\ toasts' = Add(toasts, "QR Code Downloaded")
            /\ UNCHANGED <<clipboard, shared>>
       ELSE UNCHANGED outputs
    /\ ClickFrame

\* "copied": the write succeeded; "denied": clipboard.write rejected;
\* "noBlob": fetch, blob() or new ClipboardItem threw before the write.
CopyOutcomes == {"copied", "denied", "noBlob"}

\* A slip: a catch block of copyQR that also drops the image.
copyQRDropsImage(outcome) ==
    /\ mounted
    /\ nEvents < MaxEvents
    /\ nEvents' = nEvents + 1
    /\ nClicks' = nClicks + 1
    /\ IF qrCode # ""
       THEN /\ clipboard' = IF outcome = "noBlob" THEN clipboard
                            ELSE Add(clipboard, qrCode)
            /\ toasts' = Add(toasts, IF outcome = "copied" THEN "QR Code Copied"
                                     ELSE "Copy Failed")
            /\ qrCode' = IF outcome = "copied" THEN qrCode ELSE ""
            /\ UNCHANGED <<saved, shared>>
       ELSE UNCHANGED <<outputs, qrCode>>
    /\ UNCHANGED <<mounted, form, toggles, qrData, inflight, kinds, unhandled,
                   canShare, settled>>

\* A slip: copyQR without its try / catch: a failure rejects the promise the
\* click handler returned, which nobody awaits.
copyQRUncaught(outcome) ==
    /\ mounted
    /\ nEvents < MaxEvents
    /\ nEvents' = nEvents + 1
    /\ nClicks' = nClicks + 1
    /\ IF qrCode # ""
       THEN /\ clipboard' = IF outcome = "noBlob" THEN clipboard
                            ELSE Add(clipboard, qrCode)
            /\ toasts' = IF outcome = "copied" THEN Add(toasts, "QR Code Copied")
                         ELSE toasts
            /\ unhandled' = IF outcome = "copied" THEN unhandled ELSE unhandled + 1
            /\ UNCHANGED <<saved, shared>>
       ELSE UNCHANGED <<outputs, unhandled>>
    /\ UNCHANGED <<mounted, form, toggles, derived, inflight, kinds, canShare,
                   settled>>

copyQR(outcome) ==
    /\ IF qrCode # ""
       THEN /\ clipboard' = IF outcome = "noBlob" THEN clipboard
                            ELSE Add(clipboard, qrCode)
            /\ toasts' = Add(toasts, IF outcome = "copied" THEN "QR Code Copied"
                                     ELSE "Copy Failed")
            /\ UNCHANGED <<saved, shared>>
       ELSE UNCHANGED outputs
    /\ ClickFrame

\* "shared": navigator.share fulfilled; "refused": it rejected or the user
\* cancelled it; "noBlob": fetch, blob() or new File threw before the share.
ShareOutcomes == {"shared", "refused", "noBlob"}

\* A slip: shareQR without `navigator.share &&`: where the platform has no
\* share, the call throws inside the try and the catch shows the toast.
shareQRUnchecked(outcome) ==
    /\ IF qrCode # ""
       THEN /\ shared' = IF outcome = "noBlob" \/ ~canShare THEN shared
                         ELSE Add(shared, <<"QR Code", fileName(activeTab), qrCode>>)
            /\ toasts' = IF outcome = "shared" /\ canShare THEN toasts
                         ELSE Add(toasts, "Share Failed")
            /\ UNCHANGED <<saved, clipboard>>
       ELSE UNCHANGED outputs
    /\ ClickFrame

shareQR(outcome) ==
    /\ IF canShare /\ qrCode # ""
       THEN /\ shared' = IF outcome = "noBlob" THEN shared
                         ELSE Add(shared, <<"QR Code", fileName(activeTab), qrCode>>)
            /\ toasts' = IF outcome = "shared" THEN toasts
                         ELSE Add(toasts, "Share Failed")
            /\ UNCHANGED <<saved, clipboard>>
       ELSE UNCHANGED outputs
    /\ ClickFrame

(***************************************************************************)
(* The component.                                                          *)
(***************************************************************************)
Next ==
    \/ Mount
    \/ \E value \in QRType : setActiveTab(value)
    \/ \E v \in Strings : setUrlData(v)
    \/ \E v \in Strings : setTextData(v)
    \/ \E f \in EmailFields, v \in Strings : setEmailData(f, v)
    \/ \E v \in Strings : setPhoneData(v)
    \/ \E f \in SmsFields, v \in Strings : setSmsData(f, v)
    \/ \E f \in ContactFields, v \in Strings : setContactData(f, v)
    \/ \E f \in WifiTextFields, v \in Strings : setWifiData(f, v)
    \/ \E checked \in BOOLEAN : setWifiData("hidden", checked)
    \/ setTrackScans
    \/ setRemoveWatermark
    \/ \E i \in 1..Len(inflight) : EncodeResolved(i)
    \/ \E i \in 1..Len(inflight) : EncodeRejected(i)
    \/ downloadQR
    \/ \E outcome \in CopyOutcomes : copyQR(outcome)
    \/ \E outcome \in ShareOutcomes : shareQR(outcome)

Spec == Init /\ [][Next]_vars

(***************************************************************************)
(* Shorthands of the properties.                                           *)
(***************************************************************************)
\* The payload the form stands for.
Payload ==
    format(activeTab, urlData, textData, emailData, phoneData, smsData,
           contactData, wifiData)

\* The pending encodes' payloads.
Pending == {inflight[i] : i \in 1..Len(inflight)}

RejectStep == \E i \in 1..Len(inflight) : EncodeRejected(i)
ClickStep ==
    \/ downloadQR
    \/ \E outcome \in CopyOutcomes : copyQR(outcome)
    \/ \E outcome \in ShareOutcomes : shareQR(outcome)

(***************************************************************************)
(* C1.  Once every encode that was started has fulfilled, the image shown  *)
(* is the encoding of the current payload: a result for an older payload   *)
(* that arrives after a newer payload's result does not replace it.        *)
(***************************************************************************)
C1_NewestResultWins ==
    (mounted /\ inflight = <<>> /\ unhandled = 0) => qrCode = toDataURL(qrData)

(***************************************************************************)
(* C2.  In a run whose encodes all fulfil, the payload is always the       *)
(* formatting of the active kind and its record, and an image other than   *)
(* the encoding of the current payload is shown only while an encode of    *)
(* the current payload is pending; so in every quiescent state the image   *)
(* is the encoding of the current payload.                                 *)
(***************************************************************************)
C2_StaleOnlyWhileEncoding ==
    (mounted /\ unhandled = 0) =>
        /\ qrData = Payload
        /\ (qrCode # toDataURL(qrData) => qrData \in Pending)

(***************************************************************************)
(* C3.  Every rejection of an encode is shown as a notice and is handled:  *)
(* the step adds a toast and leaves no unhandled rejection.                *)
(***************************************************************************)
C3_RejectionIsNoticed ==
    [][RejectStep => (toasts' # toasts /\ unhandled' = unhandled)]_vars

(***************************************************************************)
(* C4.  A rejection of an encode leaves the image, the active kind, every  *)
(* record and the payload as they were.                                    *)
(***************************************************************************)
C4_RejectionKeepsState ==
    [][RejectStep => UNCHANGED <<qrCode, form, qrData>>]_vars

\* A rejection has happened while an image was on display.
C4_Witness == settled = "rejected" /\ qrCode # "" /\ unhandled > 0

(***************************************************************************)
(* C5.  Download, Copy and Share, whatever their collaborators answer,     *)
(* leave the active kind, every record, the payload and the image as they  *)
(* were.                                                                   *)
(***************************************************************************)
C5_HandlersKeepFormState ==
    [][ClickStep => UNCHANGED <<form, qrData, qrCode>>]_vars

\* Copy has failed on an image that is still on display.
C5_Witness == qrCode # "" /\ BagIn("Copy Failed", toasts)

(***************************************************************************)
(* C6.  With no image yet, Download, Copy and Share do nothing: they call  *)
(* no collaborator, show no toast, leave no rejection unhandled and leave  *)
(* the form, the payload and the image as they were.                       *)
(***************************************************************************)
C6_NoImageNoAction ==
    [][(qrCode = "" /\ ClickStep) =>
           UNCHANGED <<form, toggles, derived, inflight, unhandled, outputs>>]_vars

\* A button was clicked and there is still no image.
C6_Witness == qrCode = "" /\ nClicks > 0

(***************************************************************************)
(* C7.  A step that changes the payload starts exactly one encode, of the  *)
(* new payload; a step that leaves the payload as it was starts none; and  *)
(* the encoder's status changes only idle -> encoding and encoded or       *)
(* encode-failed -> encoding on a payload change, encoding -> encoded on a *)
(* fulfilment and encoding -> encode-failed on a rejection.                *)
(***************************************************************************)
Status ==
    IF inflight # <<>> THEN "encoding"
    ELSE CASE settled = "fulfilled" -> "encoded"
           [] settled = "rejected"  -> "encode-failed"
           [] OTHER                 -> "idle"

StatusStep ==
    Status' # Status =>
        \/ /\ Status \in {"idle", "encoded", "encode-failed"}
           /\ Status' = "encoding"
           /\ qrData' # qrData
        \/ /\ Status = "encoding"
           /\ Status' = "encoded"
           /\ settled' = "fulfilled"
           /\ Len(inflight') < Len(inflight)
        \/ /\ Status = "encoding"
           /\ Status' = "encode-failed"
           /\ settled' = "rejected"
           /\ Len(inflight') < Len(inflight)

C7_OneEncodePerPayloadChange ==
    [][/\ qrData' # qrData => inflight' = Append(inflight, qrData')
       /\ qrData' = qrData => Len(inflight') <= Len(inflight)
       /\ StatusStep]_vars

\* After an encode was fulfilled an edit changed the payload, and its encode,
\* the only one pending, is of the new payload.
C7_Witness ==
    /\ settled = "fulfilled"
    /\ inflight = <<qrData>>
    /\ qrCode # toDataURL(qrData)

(***************************************************************************)
(* C8.  For the url and text kinds the payload is the input itself when    *)
(* the input is not empty, and the placeholder ("https://example.com",     *)
(* "Sample text") when it is.                                              *)
(***************************************************************************)
C8_UrlTextPassThrough ==
    mounted =>
        /\ activeTab = "url" =>
               qrData = (IF urlData = "" THEN "https://example.com" ELSE urlData)
        /\ activeTab = "text" =>
               qrData = (IF textData = "" THEN "Sample text" ELSE textData)

\* The text kind with a text typed in.
C8_Witness == mounted /\ activeTab = "text" /\ textData # ""

(***************************************************************************)
(* C9.  For the email, phone, sms, contact and wifi kinds the payload is   *)
(* the kind's template with every field put in as it is (an empty field as *)
(* nothing, hidden as true or false), except that the email subject, the   *)
(* email body and the sms message are percent-encoded.                     *)
(***************************************************************************)
\* The percent-encoding (RFC 3986) of each input value, written out.
PercentEncoded(s) ==
    CASE s = ""             -> ""
      [] s = "a@b.com"      -> "a%40b.com"
      [] s = "Hi there&you" -> "Hi%20there%26you"

\* The lines of a text, each followed by a line feed but the last.
RECURSIVE JoinLines(_)
JoinLines(lines) ==
    IF Len(lines) = 1 THEN lines[1]
    ELSE lines[1] \o "\n" \o JoinLines(Tail(lines))

C9_Templates ==
    mounted =>
        /\ activeTab = "email" =>
               qrData = "mailto:" \o emailData.email
                            \o "?subject=" \o PercentEncoded(emailData.subject)
                            \o "&body=" \o PercentEncoded(emailData.body)
        /\ activeTab = "phone" => qrData = "tel:" \o phoneData
        /\ activeTab = "sms" =>
               qrData = "sms:" \o smsData.phone
                            \o "?body=" \o PercentEncoded(smsData.message)
        /\ activeTab = "contact" =>
               qrData = JoinLines(<<
                   "BEGIN:VCARD",
                   "VERSION:3.0",
                   "FN:" \o contactData.firstName \o " " \o contactData.lastName,
                   "ORG:" \o contactData.organization,
                   "TITLE:" \o contactData.title,
                   "EMAIL:" \o contactData.email,
                   "TEL:" \o contactData.phone,
                   "TEL;TYPE=CELL:" \o contactData.mobile,
                   "END:VCARD">>)
        /\ activeTab = "wifi" =>
               qrData = "WIFI:T:" \o wifiData.security \o ";S:" \o wifiData.ssid
                            \o ";P:" \o wifiData.password
                            \o ";H:" \o (IF wifiData.hidden THEN "true" ELSE "false")
                            \o ";"

\* The email kind with a subject that holds reserved characters.
C9_Witness ==
    /\ mounted
    /\ activeTab = "email"
    /\ emailData.subject = "Hi there&you"

(***************************************************************************)
(* C10.  The payload depends on the active kind and on that kind's record  *)
(* only: it is what the formatter gives for the active kind's record with  *)
(* any other contents in the records of the other kinds, in every state,   *)
(* whatever the switches, the image and the earlier payloads are.          *)
(***************************************************************************)
\* The records of the form, those of the kinds other than `tab` filled with v and h.
OthersReplaced(tab, v, h) ==
    [url     |-> IF tab = "url" THEN urlData ELSE v,
     text    |-> IF tab = "text" THEN textData ELSE v,
     email   |-> IF tab = "email" THEN emailData
                 ELSE [email |-> v, subject |-> v, body |-> v],
     phone   |-> IF tab = "phone" THEN phoneData ELSE v,
     sms     |-> IF tab = "sms" THEN smsData ELSE [phone |-> v, message |-> v],
     contact |-> IF tab = "contact" THEN contactData
                 ELSE [firstName |-> v, lastName |-> v, organization |-> v,
                       title |-> v, email |-> v, phone |-> v, mobile |-> v],
     wifi    |-> IF tab = "wifi" THEN wifiData
                 ELSE [ssid |-> v, password |-> v, security |-> v, hidden |-> h]]

C10_PayloadOfActiveKindOnly ==
    mounted =>
        \A v \in Strings, h \in BOOLEAN :
            LET r == OthersReplaced(activeTab, v, h)
            IN  qrData = format(activeTab, r.url, r.text, r.email, r.phone,
                                r.sms, r.contact, r.wifi)

\* Another kind's record is filled in while the active kind's is not.
C10_Witness == mounted /\ activeTab = "text" /\ urlData # "" /\ textData = ""

(***************************************************************************)
(* C11.  Share with an image on display: where the platform has no share,  *)
(* the click calls no collaborator and shows no toast; where it has, a     *)
(* share that rejects or is cancelled shows exactly one "Share Failed"     *)
(* toast and leaves no rejection unhandled, and a share that succeeds      *)
(* shows no toast.                                                         *)
(***************************************************************************)
ShareStep == \E outcome \in ShareOutcomes : shareQR(outcome)

C11_ShareOutcomes ==
    [][qrCode # "" =>
          /\ (~canShare /\ ShareStep) => UNCHANGED <<outputs, unhandled>>
          /\ (canShare /\ shareQR("refused")) =>
                 /\ toasts' = Add(toasts, "Share Failed")
                 /\ UNCHANGED <<saved, clipboard, unhandled>>
          /\ (canShare /\ shareQR("shared")) =>
                 UNCHANGED <<toasts, saved, clipboard, unhandled>>]_vars

\* A share of an image was called and failed.
C11_Witness ==
    /\ canShare
    /\ qrCode # ""
    /\ shared # EmptyBag
    /\ BagIn("Share Failed", toasts)

(***************************************************************************)
(* C12.  Copy with an image on display: when fetching the bytes or the     *)
(* clipboard write fails, exactly one "Copy Failed" toast is shown, no     *)
(* rejection is left unhandled and the form, the payload and the image     *)
(* stay as they were; when the write succeeds, one "QR Code Copied" toast  *)
(* is shown and no "Copy Failed".                                          *)
(***************************************************************************)
C12_CopyOutcomes ==
    [][qrCode # "" =>
          /\ (copyQR("denied") \/ copyQR("noBlob")) =>
                 /\ toasts' = Add(toasts, "Copy Failed")
                 /\ UNCHANGED <<unhandled, form, qrData, qrCode>>
          /\ copyQR("copied") =>
                 /\ toasts' = Add(toasts, "QR Code Copied")
                 /\ UNCHANGED unhandled]_vars

\* A clipboard write of an image was called and failed.
C12_Witness ==
    /\ qrCode # ""
    /\ clipboard # EmptyBag
    /\ BagIn("Copy Failed", toasts)
    /\ ~BagIn("QR Code Copied", toasts)

(***************************************************************************)
(* C13.  The image changes only in a step in which a pending encode is     *)
(* fulfilled, and then it becomes that encode's result, whole: no input,   *)
(* tab selection, switch, rejection or button click changes it.            *)
(***************************************************************************)
C13_OnlyFulfilmentWritesImage ==
    [][qrCode' # qrCode =>
          \E i \in 1..Len(inflight) :
              /\ qrCode' = toDataURL(inflight[i])
              /\ inflight' = Remove(inflight, i)
              /\ settled' = "fulfilled"
              /\ UNCHANGED <<form, toggles, qrData, outputs, unhandled>>]_vars

\* An image was written, and handlers of every other sort have run since the
\* mount: a tab or input event and a button click.
C13_Witness == qrCode # "" /\ nClicks = 1 /\ nEvents = 2

(***************************************************************************)
(* C14.  Flipping the "track scans" or the "remove watermark" switch       *)
(* leaves the active kind, every record, the payload and the image as they *)
(* were and starts no encode.                                              *)
(***************************************************************************)
C14_SwitchesAreInert ==
    [][(trackScans' # trackScans \/ removeWatermark' # removeWatermark) =>
           UNCHANGED <<form, qrData, qrCode, inflight>>]_vars

\* Both switches are on while an image is on display.
C14_Witness == trackScans /\ removeWatermark /\ qrCode # ""

(***************************************************************************)
(* C15.  As claimed: the file that Download saves, and the file that Share *)
(* hands over, is named qr-code-<kind>.png for the kind under which the    *)
(* payload of the image in it was formatted.                               *)
(***************************************************************************)
ShareCalled == shareQR("shared") \/ shareQR("refused")

C15_FileNamedAfterImageKind ==
    [][qrCode # "" =>
          /\ downloadQR =>
                 saved' = Add(saved, <<"qr-code-" \o qrKind \o ".png", qrCode>>)
          /\ (canShare /\ ShareCalled) =>
                 shared' = Add(shared, <<"QR Code", "qr-code-" \o qrKind \o ".png",
                                         qrCode>>)]_vars

(***************************************************************************)
(* C15, amended.  The file is named qr-code-<kind>.png for the kind that   *)
(* is active when the button is clicked, and holds the image on display,   *)
(* whichever kind that image was encoded for.                              *)
(***************************************************************************)
C15_FileNamedAfterActiveKind ==
    [][qrCode # "" =>
          /\ downloadQR =>
                 saved' = Add(saved, <<"qr-code-" \o activeTab \o ".png", qrCode>>)
          /\ (canShare /\ ShareCalled) =>
                 shared' = Add(shared, <<"QR Code", "qr-code-" \o activeTab \o ".png",
                                         qrCode>>)]_vars

\* A file was saved under the active kind's name while the image on display
\* was still that of another kind.
C15_Witness ==
    /\ qrCode # ""
    /\ qrKind # activeTab
    /\ BagIn(<<"qr-code-" \o activeTab \o ".png", qrCode>>, saved)

(***************************************************************************)
(* C16.  The payload is empty before the mount effects have run and never  *)
(* after, whatever the active kind and the records hold; so every change   *)
(* of the payload passes the `if (qrData)` of the encode effect and starts *)
(* an encode.                                                              *)
(***************************************************************************)
C16_PayloadNeverEmpty ==
    [][/\ mounted <=> qrData # ""
       /\ mounted' <=> qrData' # ""
       /\ qrData' # qrData => Len(inflight') = Len(inflight) + 1]_vars

\* The text kind with nothing typed in, formatted.
C16_Witness == mounted /\ activeTab = "text" /\ textData = "" /\ qrData # ""

(***************************************************************************)
(* C17.  Selecting a tab leaves every record as it was.  A step that       *)
(* changes a record changes the record of the active kind only, in one     *)
(* field only, and leaves the active kind as it was.  After every step the *)
(* payload is the formatted record of the active kind, so a kind that is   *)
(* left and selected again with its record untouched gets the payload it   *)
(* had.                                                                    *)
(***************************************************************************)
RecordOf(tab) ==
    CASE tab = "url"     -> [value |-> urlData]
      [] tab = "text"    -> [value |-> textData]
      [] tab = "email"   -> emailData
      [] tab = "phone"   -> [value |-> phoneData]
      [] tab = "sms"     -> smsData
      [] tab = "contact" -> contactData
      [] tab = "wifi"    -> wifiData

C17_RecordsKeptApart ==
    [][/\ activeTab' # activeTab =>
              UNCHANGED <<urlData, textData, emailData, phoneData, smsData,
                          contactData, wifiData>>
       /\ \A tab \in QRType :
              RecordOf(tab)' # RecordOf(tab) =>
                  /\ tab = activeTab
                  /\ activeTab' = activeTab
                  /\ Cardinality({f \in DOMAIN RecordOf(tab) :
                                      RecordOf(tab)'[f] # RecordOf(tab)[f]}) = 1
                  /\ \A other \in QRType \ {tab} :
                         RecordOf(other)' = RecordOf(other)
       /\ mounted' => qrData' = Payload']_vars

\* The URL tab was left and selected again: three encodes are pending, and the
\* last is of the payload of the first.
C17_Witness ==
    /\ activeTab = "url"
    /\ Len(inflight) = 3
    /\ inflight[2] # inflight[1]
    /\ inflight[3] = inflight[1]
    /\ qrData = inflight[1]

(***************************************************************************)
(* C18.  No step takes an image off the display: the image is empty until  *)
(* the first encode is fulfilled and never after, whatever is edited,      *)
(* selected, clicked, fulfilled or rejected.                               *)
(***************************************************************************)
C18_ImageStaysOnDisplay ==
    [][/\ qrCode # "" => qrCode' # ""
       /\ (qrCode = "" /\ qrCode' # "") =>
              \E i \in 1..Len(inflight) : EncodeResolved(i)
       /\ qrCode' = "" <=> qrKind' = ""]_vars

\* An image is on display after a tab selection, a button click and a
\* rejection that came after the fulfilment.
C18_Witness ==
    /\ qrCode # ""
    /\ settled = "rejected"
    /\ activeTab # "url"
    /\ nClicks = 1
=============================================================================
